---------------------------- MODULE Spec2Model ----------------------------
(***************************************************************************)
(* A model of gene-report-reader: the OCR-text parser (parser.py), the     *)
(* Markdown rendering, and the Tkinter application's callbacks (gui.py).   *)
(*                                                                         *)
(* A Python str is a TLA+ string; Len, SubSeq and \o act on it character   *)
(* by character.  Two characters outside ASCII are written with ASCII      *)
(* stand-ins: I_DOT is U+0130 (capital I with dot above) and DOT_ABOVE is  *)
(* U+0307 (combining dot above), the pair Python's lower() maps U+0130 to. *)
(***************************************************************************)
EXTENDS Integers, Sequences, FiniteSets, TLC

VARIABLES
    \* _normalise_key applied to raw keys
    kpc, raw_key, other_key, norm_key, renorm_key, key_merged,
    \* parse_report_text applied to a text
    ppc, text, lines, extracted, pairs, key_values,
    \* format_markdown_table applied to a list of pairs
    tpc, table_pairs, markdown, report_markdown,
    \* the Application object, its widgets and its environment
    _ocr_client, _report, _image_path, status_label, tree, raw_text,
    messagebox, files, event, report_source

keyVars == <<kpc, raw_key, other_key, norm_key, renorm_key, key_merged>>
parseVars == <<ppc, text, lines, extracted, pairs, key_values>>
tableVars == <<tpc, table_pairs, markdown, report_markdown>>
guiVars == <<_ocr_client, _report, _image_path, status_label, tree, raw_text,
             messagebox, files, event, report_source>>
vars == <<keyVars, parseVars, tableVars, guiVars>>

\* Python's None, where the other values are strings
None == "<None>"
\* _report = None, where the other values are ParsedReport records
NoReport == [is_none |-> TRUE]
\* no message box shown yet, where the other values are <<title, message>>
NoDialog == <<>>

-----------------------------------------------------------------------------
(* Characters and the str methods the parser calls.                        *)

I_DOT == "@"
DOT_ABOVE == "~"

UpperSet ==
    { "A", "B", "C", "D", "E", "F", "G", "H", "I", "J", "K", "L", "M",
      "N", "O", "P", "Q", "R", "S", "T", "U", "V", "W", "X", "Y", "Z" }
LowerSet ==
    { "a", "b", "c", "d", "e", "f", "g", "h", "i", "j", "k", "l", "m",
      "n", "o", "p", "q", "r", "s", "t", "u", "v", "w", "x", "y", "z" }
DigitSet == {"0", "1", "2", "3", "4", "5", "6", "7", "8", "9"}

IsUpper(c) == c \in UpperSet
IsLower(c) == c \in LowerSet
IsDigit(c) == c \in DigitSet

\* the lower-case letter of an upper-case one
ToLower(c) ==
    CASE c = "A" -> "a" [] c = "B" -> "b" [] c = "C" -> "c" [] c = "D" -> "d"
      [] c = "E" -> "e" [] c = "F" -> "f" [] c = "G" -> "g" [] c = "H" -> "h"
      [] c = "I" -> "i" [] c = "J" -> "j" [] c = "K" -> "k" [] c = "L" -> "l"
      [] c = "M" -> "m" [] c = "N" -> "n" [] c = "O" -> "o" [] c = "P" -> "p"
      [] c = "Q" -> "q" [] c = "R" -> "r" [] c = "S" -> "s" [] c = "T" -> "t"
      [] c = "U" -> "u" [] c = "V" -> "v" [] c = "W" -> "w" [] c = "X" -> "x"
      [] c = "Y" -> "y" [] c = "Z" -> "z"

\* the upper-case letter of a lower-case one
ToUpper(c) ==
    CASE c = "a" -> "A" [] c = "b" -> "B" [] c = "c" -> "C" [] c = "d" -> "D"
      [] c = "e" -> "E" [] c = "f" -> "F" [] c = "g" -> "G" [] c = "h" -> "H"
      [] c = "i" -> "I" [] c = "j" -> "J" [] c = "k" -> "K" [] c = "l" -> "L"
      [] c = "m" -> "M" [] c = "n" -> "N" [] c = "o" -> "O" [] c = "p" -> "P"
      [] c = "q" -> "Q" [] c = "r" -> "R" [] c = "s" -> "S" [] c = "t" -> "T"
      [] c = "u" -> "U" [] c = "v" -> "V" [] c = "w" -> "W" [] c = "x" -> "X"
      [] c = "y" -> "Y" [] c = "z" -> "Z"

Ch(s, i) == SubSeq(s, i, i)

\* the position of character c in s, 0 when it is not there
IndexIn(c, s) ==
    IF \E i \in 1..Len(s) : Ch(s, i) = c
    THEN CHOOSE i \in 1..Len(s) : Ch(s, i) = c
    ELSE 0

\* str.strip() and the regular expressions' \s
IsSpace(c) == c \in {" ", "\n"}

\* what str.title() calls a cased character
IsCased(c) == IsUpper(c) \/ IsLower(c) \/ c = I_DOT

\* the lower-case mapping of one character (U+0130 maps to two)
CharLower(c) ==
    IF IsUpper(c) THEN ToLower(c)
    ELSE IF c = I_DOT THEN "i" \o DOT_ABOVE
    ELSE c

\* the title-case mapping of one character
CharTitle(c) ==
    IF IsLower(c) THEN ToUpper(c)
    ELSE c

\* str.lower()
RECURSIVE StrLower(_)
StrLower(s) ==
    IF s = "" THEN "" ELSE CharLower(Head(s)) \o StrLower(Tail(s))

\* str.title(): a character after a cased one is lowered, any other is
\* title-cased
RECURSIVE TitleFrom(_, _)
TitleFrom(s, prevCased) ==
    IF s = "" THEN ""
    ELSE (IF prevCased THEN CharLower(Head(s)) ELSE CharTitle(Head(s)))
         \o TitleFrom(Tail(s), IsCased(Head(s)))

Title(s) == TitleFrom(s, FALSE)

RECURSIVE LStrip(_)
LStrip(s) ==
    IF s # "" /\ IsSpace(Head(s)) THEN LStrip(Tail(s)) ELSE s

RECURSIVE RStrip(_)
RStrip(s) ==
    IF s # "" /\ IsSpace(Ch(s, Len(s)))
    THEN RStrip(SubSeq(s, 1, Len(s) - 1))
    ELSE s

\* str.strip()
Strip(s) == RStrip(LStrip(s))

\* needle in hay
Contains(hay, needle) ==
    \E i \in 1..(Len(hay) - Len(needle) + 1) :
        SubSeq(hay, i, i + Len(needle) - 1) = needle

-----------------------------------------------------------------------------
(* parser.py                                                               *)

_CANONICAL_FIELD_NAMES ==
    "patient" :> "Patient Name" @@
    "patient name" :> "Patient Name" @@
    "patient id" :> "Patient ID" @@
    "id" :> "Patient ID" @@
    "identifier" :> "Patient ID" @@
    "dob" :> "Date of Birth" @@
    "date of birth" :> "Date of Birth" @@
    "sample" :> "Sample ID" @@
    "sample id" :> "Sample ID" @@
    "sample date" :> "Sample Date" @@
    "collection date" :> "Sample Date" @@
    "report date" :> "Report Date" @@
    "gene" :> "Gene" @@
    "variant" :> "Variant" @@
    "transcript" :> "Transcript" @@
    "zygosity" :> "Zygosity" @@
    "classification" :> "Classification" @@
    "interpretation" :> "Interpretation" @@
    "recommendation" :> "Recommendations" @@
    "recommendations" :> "Recommendations" @@
    "notes" :> "Notes"

\* a mutant of _normalise_key: the table is looked up without lower()
_normalise_key_no_lower(raw) ==
    LET k == Strip(raw)
    IN  IF k \in DOMAIN _CANONICAL_FIELD_NAMES
        THEN _CANONICAL_FIELD_NAMES[k]
        ELSE Title(Strip(raw))

_normalise_key(raw) ==
    LET k == Strip(StrLower(raw))
    IN  IF k \in DOMAIN _CANONICAL_FIELD_NAMES
        THEN _CANONICAL_FIELD_NAMES[k]
        ELSE Title(Strip(raw))

\* the index of key in the dict merged (a sequence of <<key, value>> in
\* insertion order), 0 when it is not a key
KeyIndex(merged, key) ==
    IF \E i \in 1..Len(merged) : merged[i][1] = key
    THEN CHOOSE i \in 1..Len(merged) : merged[i][1] = key
    ELSE 0

\* a mutant of MergeOne: a repeated key is taken out and put back at the end
MergeOneMovesKey(merged, pair) ==
    LET key == _normalise_key(pair[1])
        value == Strip(pair[2])
        at == KeyIndex(merged, key)
        others == [i \in 1..(Len(merged) - 1) |->
                      IF i < at THEN merged[i] ELSE merged[i + 1]]
    IN  IF value = "" THEN merged
        ELSE IF at > 0
        THEN LET existing == merged[at][2]
             IN  IF ~Contains(StrLower(existing), StrLower(value))
                 THEN Append(others, <<key, existing \o "; " \o value>>)
                 ELSE merged
        ELSE Append(merged, <<key, value>>)

\* one iteration of the loop of _merge_key_value_pairs
MergeOne(merged, pair) ==
    LET key == _normalise_key(pair[1])
        value == Strip(pair[2])
        at == KeyIndex(merged, key)
    IN  IF value = "" THEN merged
        ELSE IF at > 0
        THEN LET existing == merged[at][2]
             IN  IF ~Contains(StrLower(existing), StrLower(value))
                 THEN [merged EXCEPT ![at] = <<key, existing \o "; " \o value>>]
                 ELSE merged
        ELSE Append(merged, <<key, value>>)

RECURSIVE MergeFrom(_, _)
MergeFrom(merged, ps) ==
    IF ps = <<>> THEN merged ELSE MergeFrom(MergeOne(merged, Head(ps)), Tail(ps))

_merge_key_value_pairs(ps) == MergeFrom(<<>>, ps)

\* the character classes that the patterns repeat greedily: \s, [A-Z0-9]
\* under re.IGNORECASE, [\s,:;-] and [^\s]
InClass(class, c) ==
    CASE class = "space" -> IsSpace(c)
      [] class = "gene" -> IsUpper(c) \/ IsLower(c) \/ IsDigit(c) \/ c = I_DOT
      [] class = "variant_sep" -> IsSpace(c) \/ c \in {",", ":", ";", "-"}
      [] class = "not_space" -> ~IsSpace(c)

\* the end of the longest run of characters of a class that starts at i
\* (i - 1 when s[i] is not in the class): a greedy repetition
RunEnd(class, s, i) ==
    LET stops == {j \in i..Len(s) : ~InClass(class, Ch(s, j))}
    IN  IF stops = {} THEN Len(s)
        ELSE (CHOOSE j \in stops : \A k \in stops : j <= k) - 1

\* \w
IsWord(c) == IsUpper(c) \/ IsLower(c) \/ IsDigit(c) \/ c = "_" \/ c = I_DOT

\* [\w /()\-] of _KEY_VALUE_RE
InKeyClass(c) == IsWord(c) \/ c \in {" ", "/", "(", ")", "-"}

\* [:|-] of _KEY_VALUE_RE
IsKVSeparator(c) == c \in {":", "|", "-"}

NoMatch == [ok |-> FALSE]

\* \s*[:|-]\s*(?P<value>.+)$ tried right after a key of k characters
KVTail(s, k) ==
    LET j == RunEnd("space", s, k + 1) + 1
        v == RunEnd("space", s, j + 1) + 1
    IN  IF j <= Len(s) /\ IsKVSeparator(Ch(s, j))
        THEN IF v <= Len(s)
             THEN [ok |-> TRUE, key |-> SubSeq(s, 1, k), value |-> SubSeq(s, v, Len(s))]
             ELSE IF j < Len(s)
             THEN \* only spaces follow: \s* gives the last one back to .+
                  [ok |-> TRUE, key |-> SubSeq(s, 1, k), value |-> Ch(s, Len(s))]
             ELSE NoMatch
        ELSE NoMatch

\* the lazy key: the shortest k >= from that lets the rest match
RECURSIVE KVFrom(_, _)
KVFrom(s, k) ==
    IF k > Len(s) \/ ~InKeyClass(Ch(s, k)) THEN NoMatch
    ELSE IF KVTail(s, k).ok THEN KVTail(s, k)
    ELSE KVFrom(s, k + 1)

\* _KEY_VALUE_RE.match(line), for a line without a line break
_KEY_VALUE_RE(s) == KVFrom(s, 1)

_VARIANT_KEYWORDS ==
    << "pathogenic", "likely pathogenic", "variant of uncertain significance",
       "vus", "benign", "likely benign" >>

VariantPrefixes == << "c.", "p.", "exon", "g." >>

\* re.IGNORECASE: a character of the line against a lower-case pattern one
CharEqIgnoreCase(c, p) == c = p \/ CharLower(c) = p \/ (c = I_DOT /\ p = "i")

\* the pattern word matches s at position i, ignoring case
MatchesAt(s, i, word) ==
    /\ i + Len(word) - 1 <= Len(s)
    /\ \A j \in 1..Len(word) : CharEqIgnoreCase(Ch(s, i + j - 1), Ch(word, j))

\* the first alternative of words (a tuple) that matches at i, 0 if none
FirstAlternativeAt(s, i, words) ==
    IF \E a \in 1..Len(words) : MatchesAt(s, i, words[a])
    THEN CHOOSE a \in 1..Len(words) :
            /\ MatchesAt(s, i, words[a])
            /\ \A b \in 1..(a - 1) : ~MatchesAt(s, i, words[b])
    ELSE 0

\* the positions of s where an alternative of the classification group matches
KeywordPositions(s) ==
    {q \in 1..Len(s) : FirstAlternativeAt(s, q, _VARIANT_KEYWORDS) > 0}

\* a mutant of _VARIANT_LINE_RE: .* in place of .*?, so that the last place
\* where a classification matches is taken
_VARIANT_LINE_RE_greedy(s) ==
    LET g == RunEnd("gene", s, 1)
        e == RunEnd("variant_sep", s, g + 1)
        a == FirstAlternativeAt(s, e + 1, VariantPrefixes)
        first == e + 1 + Len(VariantPrefixes[a])
        last == RunEnd("not_space", s, first)
        at == KeywordPositions(s)
        ends == {v \in first..last : \E q \in at : q > v}
        v == CHOOSE x \in ends : \A y \in ends : y <= x
        q == CHOOSE x \in at : \A y \in at : y <= x
        w == _VARIANT_KEYWORDS[FirstAlternativeAt(s, q, _VARIANT_KEYWORDS)]
    IN  IF g < 1 \/ e < g + 1 \/ a = 0 THEN NoMatch
        ELSE IF ends = {} THEN NoMatch
        ELSE [ok |-> TRUE,
              gene |-> SubSeq(s, 1, g),
              variant |-> SubSeq(s, e + 1, v),
              classification |-> SubSeq(s, q, q + Len(w) - 1)]

\* _VARIANT_LINE_RE.match(line), for a line without a line break.  The gene
\* and the separators are greedy and cannot give anything back.  The variant's
\* [^\s]+ is greedy and gives characters back until a classification can
\* follow it: it ends at v, the last place with a keyword position after it.
\* .*? then stops at the leftmost keyword position q after v, where the first
\* alternative in the pattern's order is taken.
_VARIANT_LINE_RE(s) ==
    LET g == RunEnd("gene", s, 1)
        e == RunEnd("variant_sep", s, g + 1)
        a == FirstAlternativeAt(s, e + 1, VariantPrefixes)
        first == e + 1 + Len(VariantPrefixes[a])
        last == RunEnd("not_space", s, first)
        at == KeywordPositions(s)
        ends == {v \in first..last : \E q \in at : q > v}
        v == CHOOSE x \in ends : \A y \in ends : y <= x
        q == CHOOSE x \in at : x > v /\ \A y \in at : y > v => x <= y
        w == _VARIANT_KEYWORDS[FirstAlternativeAt(s, q, _VARIANT_KEYWORDS)]
    IN  IF g < 1 \/ e < g + 1 \/ a = 0 THEN NoMatch
        ELSE IF ends = {} THEN NoMatch
        ELSE [ok |-> TRUE,
              gene |-> SubSeq(s, 1, g),
              variant |-> SubSeq(s, e + 1, v),
              classification |-> SubSeq(s, q, q + Len(w) - 1)]

\* any(keyword in line.lower() for keyword in _VARIANT_KEYWORDS)
HasKeyword(line) ==
    \E a \in 1..Len(_VARIANT_KEYWORDS) :
        Contains(StrLower(line), _VARIANT_KEYWORDS[a])

\* a mutant of ExtractLine: the variant pattern is tried before the key-value one
ExtractLineVariantFirst(rawLine) ==
    LET line == Strip(rawLine)
        match == _KEY_VALUE_RE(line)
        variant_match == _VARIANT_LINE_RE(line)
    IN  IF line = "" THEN <<>>
        ELSE IF variant_match.ok
        THEN << <<"Gene", variant_match.gene>>,
                <<"Variant", variant_match.variant>>,
                <<"Classification", Title(variant_match.classification)>> >>
        ELSE IF match.ok THEN << <<match.key, match.value>> >>
        ELSE IF HasKeyword(line) THEN << <<"Notes", line>> >>
        ELSE <<>>

\* the body of the loop of _extract_key_values_from_lines: what one line appends
ExtractLine(rawLine) ==
    LET line == Strip(rawLine)
        match == _KEY_VALUE_RE(line)
        variant_match == _VARIANT_LINE_RE(line)
    IN  IF line = "" THEN <<>>
        ELSE IF match.ok THEN << <<match.key, match.value>> >>
        ELSE IF variant_match.ok
        THEN << <<"Gene", variant_match.gene>>,
                <<"Variant", variant_match.variant>>,
                <<"Classification", Title(variant_match.classification)>> >>
        ELSE IF HasKeyword(line) THEN << <<"Notes", line>> >>
        ELSE <<>>

RECURSIVE _extract_key_values_from_lines(_)
_extract_key_values_from_lines(ls) ==
    IF ls = <<>> THEN <<>>
    ELSE ExtractLine(Head(ls)) \o _extract_key_values_from_lines(Tail(ls))

\* str.splitlines(), the line break being "\n"
RECURSIVE SplitLines(_)
SplitLines(t) ==
    IF t = "" THEN <<>>
    ELSE LET i == IndexIn("\n", t)
         IN  IF i = 0 THEN <<t>>
             ELSE <<SubSeq(t, 1, i - 1)>> \o SplitLines(SubSeq(t, i + 1, Len(t)))

\* " ".join(line.strip() for line in lines if line.strip())
RECURSIVE JoinStripped(_)
JoinStripped(ls) ==
    IF ls = <<>> THEN ""
    ELSE LET head == Strip(Head(ls))
             rest == JoinStripped(Tail(ls))
         IN  IF head = "" THEN rest
             ELSE IF rest = "" THEN head
             ELSE head \o " " \o rest

\* a mutant of PairsWithFallback: no Notes field for a text without pairs
PairsWithoutFallback(ls) == _extract_key_values_from_lines(ls)

\* the list pairs of parse_report_text when it is handed to the merge
PairsWithFallback(ls) ==
    LET found == _extract_key_values_from_lines(ls)
        cleaned == JoinStripped(ls)
    IN  IF found = <<>>
        THEN (IF cleaned # "" THEN << <<"Notes", cleaned>> >> ELSE <<>>)
        ELSE found

\* a ParsedReport is the record of its one field
parse_report_text(t) ==
    [key_values |-> _merge_key_value_pairs(PairsWithFallback(SplitLines(t)))]

\* "\n" before each row f"| {key} | {value} |", as "\n".join lays them out
\* after the header
RECURSIVE JoinRows(_)
JoinRows(ps) ==
    IF ps = <<>> THEN ""
    ELSE "\n" \o "| " \o Head(ps)[1] \o " | " \o Head(ps)[2] \o " |"
         \o JoinRows(Tail(ps))

\* a mutant of format_markdown_table: the rule under the header is left out
format_markdown_table_no_rule(ps) ==
    IF ps = <<>>
    THEN "| Field | Value |\n| _(no data)_ | |"
    ELSE "| Field | Value |" \o JoinRows(ps)

format_markdown_table(ps) ==
    IF ps = <<>>
    THEN "| Field | Value |\n| --- | --- |\n| _(no data)_ | |"
    ELSE "| Field | Value |\n| --- | --- |" \o JoinRows(ps)

\* ParsedReport.to_markdown
to_markdown(report) == format_markdown_table(report.key_values)

-----------------------------------------------------------------------------
(* Bounds and inputs.                                                      *)

MaxKeyLen == 3
MaxLines == 2
MaxRows == 2

KeyAlphabet == {"a", "D", "1", " ", I_DOT}

RECURSIVE StringsUpTo(_, _)
StringsUpTo(alphabet, n) ==
    IF n = 0 THEN {""}
    ELSE LET shorter == StringsUpTo(alphabet, n - 1)
         IN  shorter \cup {s \o c : s \in shorter, c \in alphabet}

RawKeys ==
    StringsUpTo(KeyAlphabet, MaxKeyLen)
    \cup {"DOB", "Date of Birth", " dob ", "id", "Patient ID", "Sample-Id"}

OtherKeys == {"dob", "DATE OF BIRTH", "identifier", "patient id", "A", "sample-id"}

\* lines of OCR output: blank ones, key-value ones (repeated keys, synonyms,
\* repeated and contained values), variant ones, one that both patterns match,
\* ones with only a keyword, one with nothing
ReportLines ==
    { "", "  ",
      "DOB: 1", "Date of Birth - 2", " dob :1",
      "Gene: TP53",
      "BRCA1 c.68 likely pathogenic",
      "BRCA1 - c.68 benign",
      "  atm, p.R5H is a VUS ",
      "no variant, benign",
      "hello world ",
      "Classification: Likely Benign",
      "classification | Benign",
      "Notes: see above" }

RECURSIVE TextsOfLines(_)
TextsOfLines(n) ==
    IF n = 0 THEN {""}
    ELSE IF n = 1 THEN ReportLines
    ELSE {t \o "\n" \o l : t \in TextsOfLines(n - 1), l \in ReportLines}

ReportTexts == UNION {TextsOfLines(n) : n \in 0..MaxLines}

\* one-line texts of the shape gene, separator, variant token, rest
VariantTexts ==
    { g \o sep \o v \o " " \o r :
        g \in {"BRCA1", "tp53"},
        sep \in {" ", ", ", ";  "},
        v \in {"c.68", "P.R5H", "g.1A>T", "exon5", "c.68benign"},
        r \in {"pathogenic", "Likely Pathogenic variant", "is likely benign",
               "VUS", "a variant of uncertain significance", "Benign ",
               "not benign, likely pathogenic"} }

TableKeys == {"Gene", "Patient Name", "a\nb"}
TableValues == {"BRCA1", "", "x\ny"}

RECURSIVE SeqsUpTo(_, _)
SeqsUpTo(S, n) ==
    IF n = 0 THEN {<<>>}
    ELSE LET shorter == SeqsUpTo(S, n - 1)
         IN  shorter \cup {Append(q, x) : q \in shorter, x \in S}

TablePairLists == SeqsUpTo(TableKeys \X TableValues, MaxRows)

ImagePaths == {"a.png", "b.png"}
SavePaths == {"t.md", "u.md"}
OcrTexts == {"", "Gene: TP53", "BRCA1 c.68 pathogenic\nGene: TP53"}

-----------------------------------------------------------------------------
(* The states in which a part of the program is not in use.                *)

KeyIdle ==
    /\ kpc = "idle" /\ raw_key = "" /\ other_key = "" /\ norm_key = ""
    /\ renorm_key = "" /\ key_merged = <<>>

ParseIdle ==
    /\ ppc = "idle" /\ text = "" /\ lines = <<>> /\ extracted = <<>>
    /\ pairs = <<>> /\ key_values = <<>>

TableIdle ==
    /\ tpc = "idle" /\ table_pairs = <<>> /\ markdown = "" /\ report_markdown = ""

GuiIdle ==
    /\ _ocr_client = None /\ _report = NoReport /\ _image_path = None
    /\ status_label = "" /\ tree = <<>> /\ raw_text = "" /\ messagebox = NoDialog
    /\ files = [p \in SavePaths |-> None] /\ event = "idle" /\ report_source = None

-----------------------------------------------------------------------------
(* _normalise_key and the merge of two raw keys.                           *)

InitKey ==
    /\ kpc = "start"
    /\ raw_key \in RawKeys
    /\ other_key \in OtherKeys
    /\ norm_key = "" /\ renorm_key = "" /\ key_merged = <<>>
    /\ ParseIdle /\ TableIdle /\ GuiIdle

NormaliseKeys ==
    /\ kpc = "start"
    /\ kpc' = "done"
    /\ norm_key' = _normalise_key(raw_key)
    /\ renorm_key' = _normalise_key(_normalise_key(raw_key))
    /\ key_merged' = _merge_key_value_pairs(<< <<raw_key, "1">>, <<other_key, "2">> >>)
    /\ UNCHANGED <<raw_key, other_key, parseVars, tableVars, guiVars>>

NextKey == NormaliseKeys

SpecKey == InitKey /\ [][NextKey]_vars

-----------------------------------------------------------------------------
(* parse_report_text.                                                      *)

InitParse ==
    /\ ppc = "start"
    /\ text \in ReportTexts
    /\ lines = <<>> /\ extracted = <<>> /\ pairs = <<>> /\ key_values = <<>>
    /\ KeyIdle /\ TableIdle /\ GuiIdle

InitVariant ==
    /\ ppc = "start"
    /\ text \in VariantTexts
    /\ lines = <<>> /\ extracted = <<>> /\ pairs = <<>> /\ key_values = <<>>
    /\ KeyIdle /\ TableIdle /\ GuiIdle

\* the call parse_report_text(text), with the values of its locals
ParseReportText ==
    /\ ppc = "start"
    /\ ppc' = "parsed"
    /\ lines' = SplitLines(text)
    /\ extracted' = _extract_key_values_from_lines(lines')
    /\ pairs' = PairsWithFallback(lines')
    /\ key_values' = _merge_key_value_pairs(pairs')
    /\ UNCHANGED <<text, keyVars, tableVars, guiVars>>

NextParse == ParseReportText

SpecParse == InitParse /\ [][NextParse]_vars

SpecVariant == InitVariant /\ [][NextParse]_vars

-----------------------------------------------------------------------------
(* format_markdown_table and ParsedReport.to_markdown.                     *)

InitTable ==
    /\ tpc = "start"
    /\ table_pairs \in TablePairLists
    /\ markdown = "" /\ report_markdown = ""
    /\ KeyIdle /\ ParseIdle /\ GuiIdle

FormatTable ==
    /\ tpc = "start"
    /\ tpc' = "done"
    /\ markdown' = format_markdown_table(table_pairs)
    /\ report_markdown' = to_markdown([key_values |-> table_pairs])
    /\ UNCHANGED <<table_pairs, keyVars, parseVars, guiVars>>

NextTable == FormatTable

SpecTable == InitTable /\ [][NextTable]_vars

-----------------------------------------------------------------------------
(* gui.py: the Application and its three callbacks.  event is the callback  *)
(* that ran last and how it ended; messagebox is the last dialog shown;     *)
(* files maps each path of the save dialog to what was written there;       *)
(* report_source is the path whose OCR text _report was parsed from.        *)

\* Application.__init__
Init ==
    /\ _ocr_client = None /\ _report = NoReport /\ _image_path = None
    /\ status_label = "Select a report image to begin."
    /\ tree = <<>> /\ raw_text = ""
    /\ messagebox = NoDialog
    /\ files = [p \in SavePaths |-> None]
    /\ event = "init"
    /\ report_source = None
    /\ KeyIdle /\ ParseIdle /\ TableIdle

\* _on_load, the file dialog cancelled
OnLoadCancelled ==
    /\ event' = "load_cancel"
    /\ UNCHANGED <<_ocr_client, _report, _image_path, status_label, tree,
                   raw_text, messagebox, files, report_source>>

\* a mutant of OnLoadConfirmed: the stored report is kept
OnLoadKeepsReport ==
    \E path \in ImagePaths :
        /\ _image_path' = path
        /\ status_label' = "Loaded " \o path
        /\ raw_text' = ""
        /\ tree' = <<>>
        /\ report_source' = None
        /\ event' = "load"
        /\ UNCHANGED <<_report, _ocr_client, messagebox, files>>

\* a mutant of OnLoadConfirmed: the table is not emptied
OnLoadKeepsTable ==
    \E path \in ImagePaths :
        /\ _image_path' = path
        /\ status_label' = "Loaded " \o path
        /\ raw_text' = ""
        /\ _report' = NoReport
        /\ report_source' = None
        /\ event' = "load"
        /\ UNCHANGED <<tree, _ocr_client, messagebox, files>>

\* _on_load, a path chosen
OnLoadConfirmed ==
    \E path \in ImagePaths :
        /\ _image_path' = path
        /\ status_label' = "Loaded " \o path
        /\ raw_text' = ""
        /\ tree' = <<>>
        /\ _report' = NoReport
        /\ report_source' = None
        /\ event' = "load"
        /\ UNCHANGED <<_ocr_client, messagebox, files>>

_on_load ==
    /\ OnLoadCancelled \/ OnLoadConfirmed
    /\ UNCHANGED <<keyVars, parseVars, tableVars>>

\* the messages of the two OCRClientError that _discover_backend raises
DiscoveryErrors ==
    { "The 'olmOCR2' package is required to perform OCR. Install it with 'pip install olmOCR2'.",
      "Could not find a supported OCR entry point in 'olmOCR2'. Ensure you are using a compatible version." }

\* _on_process with no image loaded
ProcessNoImage ==
    /\ _image_path = None
    /\ messagebox' = <<"No image", "Please load an image first.">>
    /\ event' = "process_no_image"
    /\ UNCHANGED <<_ocr_client, _report, _image_path, status_label, tree,
                   raw_text, files, report_source>>

\* _on_process, OCRClient() raising in _ensure_ocr_client: an OCRClientError
\* of _discover_backend, or any other exception of the import or of the
\* backend's constructor; the assignment to _ocr_client is not reached
ProcessDiscoverFails ==
    /\ _image_path # None
    /\ _ocr_client = None
    /\ \/ \E msg \in DiscoveryErrors : messagebox' = <<"OCR unavailable", msg>>
       \/ messagebox' = <<"OCR error", "An unexpected error occurred: backend">>
    /\ status_label' = "OCR failed"
    /\ event' = "process_discover_failed"
    /\ UNCHANGED <<_ocr_client, _report, _image_path, tree, raw_text, files,
                   report_source>>

\* a mutant of ProcessExtractFails: the raw-text pane is emptied before the
\* backend is called
ProcessExtractFailsClearsText ==
    /\ _image_path # None
    /\ _ocr_client' = "client"
    /\ raw_text' = ""
    /\ messagebox' = <<"OCR error", "An unexpected error occurred: ocr">>
    /\ status_label' = "OCR failed"
    /\ event' = "process_extract_failed"
    /\ UNCHANGED <<_report, _image_path, tree, files, report_source>>

\* _on_process, the client there (cached, or created now) and extract_text
\* raising
ProcessExtractFails ==
    /\ _image_path # None
    /\ _ocr_client' = "client"
    /\ messagebox' = <<"OCR error", "An unexpected error occurred: ocr">>
    /\ status_label' = "OCR failed"
    /\ event' = "process_extract_failed"
    /\ UNCHANGED <<_report, _image_path, tree, raw_text, files, report_source>>

\* _on_process, the client there (cached, or created now) and extract_text
\* returning a text
ProcessSucceeds ==
    /\ _image_path # None
    /\ \E t \in OcrTexts :
        /\ raw_text' = t
        /\ _report' = parse_report_text(t)
        /\ tree' = _report'.key_values
    /\ _ocr_client' = "client"
    /\ status_label' = "OCR complete"
    /\ report_source' = _image_path
    /\ event' = "process_ok"
    /\ UNCHANGED <<_image_path, messagebox, files>>

_on_process ==
    /\ ProcessNoImage \/ ProcessDiscoverFails \/ ProcessExtractFails \/ ProcessSucceeds
    /\ UNCHANGED <<keyVars, parseVars, tableVars>>

\* _on_export with no report stored
ExportNothing ==
    /\ _report = NoReport
    /\ messagebox' = <<"Nothing to export", "Run OCR before exporting.">>
    /\ event' = "export_nothing"
    /\ UNCHANGED <<_ocr_client, _report, _image_path, status_label, tree,
                   raw_text, files, report_source>>

\* _on_export, the save dialog cancelled
ExportCancelled ==
    /\ _report # NoReport
    /\ event' = "export_cancel"
    /\ UNCHANGED <<_ocr_client, _report, _image_path, status_label, tree,
                   raw_text, messagebox, files, report_source>>

\* _on_export, a path chosen
ExportSaved ==
    /\ _report # NoReport
    /\ \E path \in SavePaths :
        /\ files' = [files EXCEPT ![path] = to_markdown(_report)]
        /\ messagebox' = <<"Export complete", "Saved table to " \o path>>
    /\ event' = "export_saved"
    /\ UNCHANGED <<_ocr_client, _report, _image_path, status_label, tree,
                   raw_text, report_source>>

_on_export ==
    /\ ExportNothing \/ ExportCancelled \/ ExportSaved
    /\ UNCHANGED <<keyVars, parseVars, tableVars>>

Next == _on_load \/ _on_process \/ _on_export

Spec == Init /\ [][Next]_vars

-----------------------------------------------------------------------------
(* The claims about the parser, checked under SpecParse unless said        *)
(* otherwise.                                                              *)

FieldNames(kvs) == [i \in 1..Len(kvs) |-> kvs[i][1]]

\* the elements of names from position i on that did not occur before, in order
RECURSIVE FirstOccurrencesFrom(_, _)
FirstOccurrencesFrom(names, i) ==
    IF i > Len(names) THEN <<>>
    ELSE (IF \E j \in 1..(i - 1) : names[j] = names[i] THEN <<>> ELSE <<names[i]>>)
         \o FirstOccurrencesFrom(names, i + 1)

\* the normalised name of each pair the lines produced
ProducedNames == [i \in 1..Len(pairs) |-> _normalise_key(pairs[i][1])]

\* C1: the fields that parse_report_text returns carry each normalised name at
\* most once, in the order in which the names were first produced by the lines.
C1_FieldsOnceInFirstSeenOrder ==
    ppc = "parsed" =>
        /\ \A i, j \in 1..Len(key_values) :
              i # j => key_values[i][1] # key_values[j][1]
        /\ FieldNames(key_values) = FirstOccurrencesFrom(ProducedNames, 1)

\* C1's case: a later line repeats the name Gene that an earlier line produced
C1_Witness ==
    /\ ppc = "parsed"
    /\ Len(lines) = 2
    /\ ProducedNames = <<"Gene", "Variant", "Classification", "Gene">>
    /\ FieldNames(key_values) = <<"Gene", "Variant", "Classification">>

\* the stripped values that the pairs give for a normalised name, from
\* position i on, without those equal to an earlier value for the name
RECURSIVE DistinctValuesFrom(_, _)
DistinctValuesFrom(name, i) ==
    IF i > Len(pairs) THEN <<>>
    ELSE (IF /\ ProducedNames[i] = name
             /\ ~\E j \in 1..(i - 1) :
                   ProducedNames[j] = name /\ Strip(pairs[j][2]) = Strip(pairs[i][2])
          THEN <<Strip(pairs[i][2])>>
          ELSE <<>>)
         \o DistinctValuesFrom(name, i + 1)

RECURSIVE JoinWith(_, _)
JoinWith(strings, sep) ==
    IF strings = <<>> THEN ""
    ELSE IF Len(strings) = 1 THEN strings[1]
    ELSE strings[1] \o sep \o JoinWith(Tail(strings), sep)

\* C2: the merged value of a key is its first value followed by every later
\* value distinct from the values already recorded for the key, joined by "; ".
C2_DistinctValuesJoined ==
    ppc = "parsed" =>
        \A i \in 1..Len(key_values) :
            key_values[i][2] = JoinWith(DistinctValuesFrom(key_values[i][1], 1), "; ")

\* what the claim's rule of priority gives for one line
RuleOutput(rawLine) ==
    LET line == Strip(rawLine)
        kv == _KEY_VALUE_RE(line)
        var == _VARIANT_LINE_RE(line)
    IN  CASE line = "" -> <<>>
          [] line # "" /\ kv.ok -> << <<kv.key, kv.value>> >>
          [] line # "" /\ ~kv.ok /\ var.ok ->
                << <<"Gene", var.gene>>, <<"Variant", var.variant>>,
                   <<"Classification", Title(var.classification)>> >>
          [] line # "" /\ ~kv.ok /\ ~var.ok /\ HasKeyword(line) ->
                << <<"Notes", line>> >>
          [] OTHER -> <<>>

RECURSIVE RuleOutputs(_)
RuleOutputs(ls) ==
    IF ls = <<>> THEN <<>> ELSE RuleOutput(Head(ls)) \o RuleOutputs(Tail(ls))

\* C3: every line is handled by exactly one rule, in the priority key-value,
\* variant, keyword, nothing; what the lines contribute is what these rules give.
C3_OneRulePerLineByPriority ==
    ppc = "parsed" => extracted = RuleOutputs(lines)

\* C3's case: a line that both patterns match is taken as key-value only
C3_Witness ==
    /\ ppc = "parsed"
    /\ Len(lines) = 1
    /\ _KEY_VALUE_RE(Strip(lines[1])).ok
    /\ _VARIANT_LINE_RE(Strip(lines[1])).ok
    /\ extracted = << <<"BRCA1", "c.68 benign">> >>

\* the non-blank lines, stripped
RECURSIVE StrippedNonBlank(_)
StrippedNonBlank(ls) ==
    IF ls = <<>> THEN <<>>
    ELSE (IF Strip(Head(ls)) = "" THEN <<>> ELSE <<Strip(Head(ls))>>)
         \o StrippedNonBlank(Tail(ls))

\* C6: a text none of whose lines yields a pair, with a non-blank line, gives
\* the one field Notes holding the non-blank lines, stripped and joined by
\* single spaces; the field list is empty exactly when no line is non-blank.
C6_NotesFallback ==
    ppc = "parsed" =>
        /\ (extracted = <<>> /\ StrippedNonBlank(lines) # <<>>) =>
              key_values = << <<"Notes", JoinWith(StrippedNonBlank(lines), " ")>> >>
        /\ key_values = <<>> <=> StrippedNonBlank(lines) = <<>>

\* C6's case: two lines without pairs become one Notes field
C6_Witness ==
    /\ ppc = "parsed"
    /\ extracted = <<>>
    /\ Len(StrippedNonBlank(lines)) = 2
    /\ key_values = << <<"Notes", "hello world hello world">> >>

-----------------------------------------------------------------------------
(* The claim about variant lines, checked under SpecVariant.               *)

NoKeyValueSeparator(s) == \A i \in 1..Len(s) : ~IsKVSeparator(Ch(s, i))

\* the line read as the claim reads it: the gene symbol, separators, the
\* variant token up to the next space, the rest
GeneEnd(s) == RunEnd("gene", s, 1)
TokenStart(s) == RunEnd("variant_sep", s, GeneEnd(s) + 1) + 1
TokenEnd(s) == RunEnd("not_space", s, TokenStart(s))
VariantToken(s) == SubSeq(s, TokenStart(s), TokenEnd(s))
RestOfLine(s) == SubSeq(s, TokenEnd(s) + 1, Len(s))

IsVariantToken(tok) ==
    \E a \in 1..Len(VariantPrefixes) :
        /\ MatchesAt(tok, 1, VariantPrefixes[a])
        /\ Len(tok) > Len(VariantPrefixes[a])

\* the keyword occurrences of s: <<position, keyword>>
KeywordOccurrences(s) ==
    {<<q, a>> \in (1..Len(s)) \X (1..Len(_VARIANT_KEYWORDS)) :
        MatchesAt(s, q, _VARIANT_KEYWORDS[a])}

\* the first classification keyword found in s, as written there
FirstKeyword(s) ==
    LET first == CHOOSE o \in KeywordOccurrences(s) :
                    \A x \in KeywordOccurrences(s) : o[1] <= x[1]
    IN  SubSeq(s, first[1], first[1] + Len(_VARIANT_KEYWORDS[first[2]]) - 1)

HasVariantShape(s) ==
    /\ NoKeyValueSeparator(s)
    /\ GeneEnd(s) >= 1
    /\ TokenStart(s) > GeneEnd(s) + 1
    /\ IsVariantToken(VariantToken(s))
    /\ KeywordOccurrences(RestOfLine(s)) # {}

\* C5: a line without key-value separator made of a gene symbol, a variant
\* token and a text with a classification keyword yields exactly Gene, Variant
\* and Classification, in this order, the classification being the first
\* keyword found after the variant token, title-cased.
C5_VariantLineFields ==
    (ppc = "parsed" /\ Len(lines) = 1 /\ HasVariantShape(Strip(lines[1]))) =>
        key_values =
            << <<"Gene", SubSeq(Strip(lines[1]), 1, GeneEnd(Strip(lines[1])))>>,
               <<"Variant", VariantToken(Strip(lines[1]))>>,
               <<"Classification", Title(FirstKeyword(RestOfLine(Strip(lines[1]))))>> >>

\* C5's case: "likely pathogenic" after an earlier text is reported whole
C5_Witness ==
    /\ ppc = "parsed"
    /\ text = "tp53, P.R5H Likely Pathogenic variant"
    /\ HasVariantShape(Strip(lines[1]))
    /\ key_values = << <<"Gene", "tp53">>, <<"Variant", "P.R5H">>,
                       <<"Classification", "Likely Pathogenic">> >>

-----------------------------------------------------------------------------
(* The claim about _normalise_key, checked under SpecKey.                  *)

IsAscii(s) == \A i \in 1..Len(s) : Ch(s, i) \notin {I_DOT, DOT_ABOVE}

\* the name the claim gives a raw key: the table's, looked up on the key
\* lower-cased and trimmed, else the key trimmed and title-cased
NameByTable(raw) ==
    IF Strip(StrLower(raw)) \in DOMAIN _CANONICAL_FIELD_NAMES
    THEN _CANONICAL_FIELD_NAMES[Strip(StrLower(raw))]
    ELSE Title(Strip(raw))

\* C4 (as amended): a raw key gets the table's name or its trimmed title-cased
\* form, two raw keys with one name end up in one field of that name, and
\* normalising the name of an ASCII raw key again returns it unchanged.
C4_NormalisationAscii ==
    kpc = "done" =>
        /\ norm_key = NameByTable(raw_key)
        /\ NameByTable(other_key) = norm_key =>
              key_merged = << <<norm_key, "1; 2">> >>
        /\ IsAscii(raw_key) => renorm_key = norm_key

\* C4's case: DOB and DATE OF BIRTH end up in the one field Date of Birth
C4_Witness ==
    /\ kpc = "done"
    /\ raw_key = "DOB" /\ other_key = "DATE OF BIRTH"
    /\ key_merged = << <<"Date of Birth", "1; 2">> >>
    /\ renorm_key = norm_key

\* C4 as stated: the same, normalisation being idempotent for every raw key
C4_NormalisationIdempotent ==
    kpc = "done" =>
        /\ norm_key = NameByTable(raw_key)
        /\ NameByTable(other_key) = norm_key =>
              key_merged = << <<norm_key, "1; 2">> >>
        /\ renorm_key = norm_key

-----------------------------------------------------------------------------
(* The claim about the Markdown table, checked under SpecTable.            *)

NoLineBreak(ps) ==
    \A i \in 1..Len(ps) : ~Contains(ps[i][1], "\n") /\ ~Contains(ps[i][2], "\n")

TableRow(pair) == "| " \o pair[1] \o " | " \o pair[2] \o " |"

\* the lines the claim describes for the pairs ps
TableLines(ps) ==
    IF ps = <<>>
    THEN << "| Field | Value |", "| --- | --- |", "| _(no data)_ | |" >>
    ELSE << "| Field | Value |", "| --- | --- |" >>
         \o [i \in 1..Len(ps) |-> TableRow(ps[i])]

\* C7 (as amended): for pairs whose keys and values hold no line break the
\* table is the header, the rule and one row per pair in order (n + 2 lines),
\* or the placeholder row for no pairs; to_markdown returns the same text.
C7_TableLinesWithoutBreaks ==
    tpc = "done" =>
        /\ report_markdown = markdown
        /\ NoLineBreak(table_pairs) => SplitLines(markdown) = TableLines(table_pairs)

\* C7's case: two pairs rendered as four lines
C7_Witness ==
    /\ tpc = "done"
    /\ table_pairs = << <<"Patient Name", "BRCA1">>, <<"Gene", "">> >>
    /\ Len(SplitLines(markdown)) = 4
    /\ report_markdown = markdown

\* C7 as stated: the same for any list of pairs
C7_TableLines ==
    tpc = "done" =>
        /\ report_markdown = markdown
        /\ SplitLines(markdown) = TableLines(table_pairs)

-----------------------------------------------------------------------------
(* The claims about the application, checked under Spec.                   *)

ProcessEvents ==
    {"process_no_image", "process_discover_failed", "process_extract_failed",
     "process_ok"}
ExportEvents == {"export_nothing", "export_cancel", "export_saved"}

appVars == <<_ocr_client, _report, _image_path, status_label, tree, raw_text>>

\* C8: an export writes a file only if Run OCR has succeeded since the last
\* confirmed load; Export without that, and Run OCR without an image, change
\* nothing and only show their message.
C8_ExportOnlyAfterOcrSinceLoad ==
    [][ /\ files' # files => (event' = "export_saved" /\ report_source # None)
        /\ event' = "export_saved" => report_source # None
        /\ (event' \in ExportEvents /\ report_source = None) =>
              /\ event' = "export_nothing"
              /\ messagebox' = <<"Nothing to export", "Run OCR before exporting.">>
              /\ UNCHANGED <<appVars, files, report_source>>
        /\ (event' \in ProcessEvents /\ _image_path = None) =>
              /\ event' = "process_no_image"
              /\ messagebox' = <<"No image", "Please load an image first.">>
              /\ UNCHANGED <<appVars, files, report_source>>
      ]_vars

\* C8's case: Export pressed after a file was written and a new image loaded
C8_Witness ==
    /\ event = "export_nothing"
    /\ _image_path # None
    /\ \E p \in SavePaths : files[p] # None
    /\ messagebox = <<"Nothing to export", "Run OCR before exporting.">>

\* C9: a failed Run OCR leaves the report, the table, the raw text and the
\* image path alone and sets the status to "OCR failed"; a failed creation of
\* the client caches none and the next run tries again, a created client is
\* kept; a cancelled dialog changes nothing.
C9_FailuresChangeNothing ==
    [][ /\ event' \in {"process_discover_failed", "process_extract_failed"} =>
              /\ UNCHANGED <<_report, tree, raw_text, _image_path, files, report_source>>
              /\ status_label' = "OCR failed"
        /\ event' = "process_discover_failed" =>
              (_ocr_client = None /\ _ocr_client' = None)
        /\ (event' \in ProcessEvents /\ _image_path # None /\ _ocr_client = None) =>
              (event' = "process_discover_failed" \/ _ocr_client' # None)
        /\ _ocr_client # None => _ocr_client' = _ocr_client
        /\ event' \in {"load_cancel", "export_cancel"} =>
              UNCHANGED <<appVars, messagebox, files, report_source>>
      ]_vars

\* C9's case: the backend fails after an earlier run stored a report
C9_Witness ==
    /\ event = "process_extract_failed"
    /\ status_label = "OCR failed"
    /\ _report # NoReport
    /\ raw_text # ""
    /\ tree = _report.key_values

\* C10: a stored report comes from a successful Run OCR on the image path now
\* loaded and the table shows its fields; with no report the table is empty.
C10_ReportNeverStale ==
    /\ _report # NoReport =>
          /\ _image_path # None
          /\ report_source = _image_path
          /\ tree = _report.key_values
    /\ _report = NoReport => tree = <<>>

\* C10's case: a report for the image b.png with an export already written
C10_Witness ==
    /\ _report # NoReport
    /\ tree # <<>>
    /\ _image_path = "b.png"
    /\ report_source = "b.png"
    /\ \E p \in SavePaths : files[p] # None

=============================================================================
